---- MODULE Spec2Model ----
(***************************************************************************)
(* Model of the real-estate scraper: service_modules/scraper.py and        *)
(* service_modules/db_connection.py.                                       *)
(*                                                                         *)
(*   Spec        scrape_and_save: pagination discovery, drop/recreate,     *)
(*               the batch loop and the storage connection                 *)
(*   SpecFetch   fetch_response: one call with its recursive retries       *)
(*   SpecRecord  get_single_apartment_data applied to detail pages         *)
(*   SpecUrls    get_apartment_urls_from_single_page / _multiple_pages      *)
(*   SpecGather  get_multiple_pages_content: the tasks of a fetch phase     *)
(*   SpecPhases  the batch loop with its units of work: fetches in flight   *)
(*               and extraction workers                                     *)
(***************************************************************************)
EXTENDS Integers, Sequences, FiniteSets, TLC

VARIABLES
    \* ---- the site and the database file (environment of scrape_and_save)
    city,               \* city slug passed to scrape_and_save
    pagination,         \* what the discovery fetch of the search URL finds
    site_pages,         \* last page number shown by the pagination control
    links,              \* listing anchors on every search page
    defect,             \* [page, kind]: the one irregular search page
    table_exists,       \* the city's table exists in the database file
    committed,          \* durable rows of the city's table
    pending,            \* rows inserted in the open transaction
    conn_open,          \* a DataBaseConnection is open
    \* ---- scrape_and_save
    pc, run, fault,
    last_page, all_search_pages, next_pages, progress,
    all_search_pages_content, all_apt_urls, all_apt_htmls, data,
    \* ---- history of a run
    page_requests,      \* per batch, the Page parameters requested
    detail_requests,    \* per batch, the listing URLs requested
    db_log,             \* storage operations of the run, in order
    reports,            \* what the run printed
    run_rows,           \* per finished run, the durable rows at its end
    \* ---- fetch_response
    f_url, f_page, f_calls, f_requests, f_responses, f_done, f_result,
    \* ---- get_single_apartment_data
    r_city, r_html, r_applied, r_result,
    \* ---- get_apartment_urls_from_single_page / _multiple_pages
    u_homepage, u_pages, u_applied, u_result,
    \* ---- get_multiple_pages_content, inside the batch loop
    g_tasks,            \* per task of the phase: "pending" or how it resolved
    g_hung,             \* the tasks whose fetch never resolves
    g_order,            \* the tasks in the order they resolved
    g_state,            \* where the caller is
    g_phase,            \* "search" or "detail"
    g_result,           \* the tasks whose results the caller receives
    g_batch,            \* batches started
    g_committed,        \* batches committed
    \* ---- the batch loop, unit of work by unit of work
    p_pc,               \* the phase the loop is in
    p_pages_left,       \* len(all_search_pages)
    p_batch,            \* batches started
    p_commits,          \* batches committed
    p_in_flight,        \* fetch tasks created and not yet done
    p_bodies,           \* bodies the fetch phase has obtained
    p_workers,          \* extraction calls submitted and not yet finished
    p_items,            \* listing URLs the extraction phase has produced
    p_raised,           \* a unit of the phase raised
    p_db_ops            \* statements and commits executed on the connection

siteVars == <<city, pagination, site_pages, links, defect>>
dbVars == <<table_exists, committed, pending, conn_open>>
runVars == <<pc, run, fault, last_page, all_search_pages, next_pages, progress,
             all_search_pages_content, all_apt_urls, all_apt_htmls, data>>
histVars == <<page_requests, detail_requests, db_log, reports, run_rows>>
fetchVars == <<f_url, f_page, f_calls, f_requests, f_responses, f_done, f_result>>
recVars == <<r_city, r_html, r_applied, r_result>>
urlVars == <<u_homepage, u_pages, u_applied, u_result>>
gatherVars == <<g_tasks, g_hung, g_order, g_state, g_phase, g_result, g_batch, g_committed>>
phaseVars == <<p_pc, p_pages_left, p_batch, p_commits, p_in_flight, p_bodies,
               p_workers, p_items, p_raised, p_db_ops>>
vars == <<siteVars, dbVars, runVars, histVars, fetchVars, recVars, urlVars, gatherVars,
          phaseVars>>

----------------------------------------------------------------------------
\* Bounds of the model
MaxFullBatches == 2
MaxLinks == 2
MaxRuns == 2
MaxRequests == 4
MaxDeviations == 2
MaxAnchors == 2
MaxPages == 2
MaxTasks == 3
MaxGatherBatches == 2

\* Program constant: pages per iteration of the batch loop
n_pages_by_iteration == 40

Min(a, b) == IF a < b THEN a ELSE b

Last(s) == s[Len(s)]

----------------------------------------------------------------------------
(***************************************************************************)
(* Detail pages.  A JSON value is [t, n, s]: t is its type, n the number   *)
(* of a "num", s the whitespace-delimited tokens of a "str".  t = "absent" *)
(* stands for a key that the enclosing object does not have.               *)
(***************************************************************************)
Absent == [t |-> "absent", n |-> 0, s |-> <<>>]
Null == [t |-> "null", n |-> 0, s |-> <<>>]
Num(k) == [t |-> "num", n |-> k, s |-> <<>>]
Str(tokens) == [t |-> "str", n |-> 0, s |-> tokens]

\* the object under "district"/"adminDistrict" and the one under "location"
DistrictObj(name) == [t |-> "obj", name |-> name]
DistrictOther(tag) == [t |-> tag, name |-> Absent]
LocationObj(lon, lat) == [t |-> "obj", longitude |-> lon, latitude |-> lat]
LocationOther(tag) == [t |-> tag, longitude |-> Absent, latitude |-> Absent]

Cities == {"ekaterinburg", "moscow", "saint_petersburg"}

\* the value get_single_apartment_data returns, or the exception it raises
Returned(rec) == [exc |-> "", none |-> FALSE, rec |-> rec]
ReturnedNone == [exc |-> "", none |-> TRUE, rec |-> <<>>]
Raised(e) == [exc |-> e, none |-> FALSE, rec |-> <<>>]

\* (mutant) an except clause that forgets KeyError
HandledOnlyTypeError == {"TypeError"}

\* the exceptions the except clause of get_single_apartment_data handles
HandledExceptions == {"KeyError", "TypeError"}

\* x[key] on a parsed JSON value x, child being x's entry for key:
\* "" when it succeeds, else the exception Python raises
Subscript(parent_t, child_t) ==
    IF parent_t # "obj" THEN "TypeError"
    ELSE IF child_t = "absent" THEN "KeyError"
    ELSE ""

\* (mutant) the same key for every city
DistrictKeyAlwaysAdmin(c) == "adminDistrict"

\* the key of the district, chosen by the city slug
DistrictKey(c) == IF c = "ekaterinburg" THEN "district" ELSE "adminDistrict"

\* the first exception raised by the body of the try block, "" if none
ExtractionError(c, html) ==
    LET info == html.item
        d == IF DistrictKey(c) = "district" THEN info.district ELSE info.adminDistrict
        loc == info.location
    IN  IF ~html.script THEN "AttributeError"
        ELSE IF html.doc = "undecodable" THEN "JSONDecodeError"
        ELSE IF html.doc = "not_object" THEN "TypeError"
        ELSE IF html.doc \in {"no_itemState", "no_item"} THEN "KeyError"
        ELSE IF html.doc = "item_null" THEN "TypeError"
        ELSE IF d.t = "absent" THEN "KeyError"
        ELSE IF Subscript(d.t, d.name.t) # "" THEN Subscript(d.t, d.name.t)
        ELSE IF d.name.t # "str" THEN "AttributeError"
        ELSE IF Len(d.name.s) = 0 THEN "IndexError"
        ELSE IF loc.t = "absent" THEN "KeyError"
        ELSE IF Subscript(loc.t, loc.longitude.t) # "" THEN Subscript(loc.t, loc.longitude.t)
        ELSE IF Subscript(loc.t, loc.latitude.t) # "" THEN Subscript(loc.t, loc.latitude.t)
        ELSE IF info.floorAreaCalculated.t = "absent" THEN "KeyError"
        ELSE IF info.priceValue.t = "absent" THEN "KeyError"
        ELSE IF info.pricePerAreaValue.t = "absent" THEN "KeyError"
        ELSE ""

\* the tuple built in the else branch
ExtractedTuple(c, html) ==
    LET info == html.item
        d == IF DistrictKey(c) = "district" THEN info.district ELSE info.adminDistrict
    IN  << Str(<<d.name.s[1]>>), info.location.longitude, info.location.latitude,
           info.floorAreaCalculated, info.priceValue, info.pricePerAreaValue >>

get_single_apartment_data(c, html) ==
    LET e == ExtractionError(c, html)
    IN  IF e = "" THEN Returned(ExtractedTuple(c, html))
        ELSE IF e \in HandledExceptions THEN ReturnedNone
        ELSE Raised(e)

\* ---- detail pages used as inputs
GoodName == Str(<<"Kirovsky", "rayon">>)
GoodItem(c) ==
    [district |-> IF DistrictKey(c) = "district" THEN DistrictObj(GoodName)
                  ELSE DistrictOther("absent"),
     adminDistrict |-> IF DistrictKey(c) = "district" THEN DistrictOther("absent")
                       ELSE DistrictObj(GoodName),
     location |-> LocationObj(Num(60), Num(56)),
     floorAreaCalculated |-> Num(45),
     priceValue |-> Num(3000),
     pricePerAreaValue |-> Num(66)]
GoodHtml(c) == [script |-> TRUE, doc |-> "item", item |-> GoodItem(c)]

NameValues == {Absent, Null, Num(7), Str(<<>>), Str(<<"Leninsky">>), GoodName}
DistrictValues ==
    {DistrictOther(tag) : tag \in {"absent", "null", "str", "list"}}
        \cup {DistrictObj(nm) : nm \in NameValues}
ScalarValues(good) == {Absent, Null, Num(good), Str(<<"45">>)}
LocationValues ==
    {LocationOther(tag) : tag \in {"absent", "null", "str"}}
        \cup {LocationObj(lon, lat) : lon \in {Absent, Null, Num(60)},
                                      lat \in {Absent, Num(56), Str(<<"56">>)}}
DocValues == {"undecodable", "not_object", "no_itemState", "no_item", "item_null", "item"}

Items ==
    [district : DistrictValues, adminDistrict : DistrictValues,
     location : LocationValues, floorAreaCalculated : ScalarValues(45),
     priceValue : ScalarValues(3000), pricePerAreaValue : ScalarValues(66)]

ItemFields ==
    {"district", "adminDistrict", "location", "floorAreaCalculated",
     "priceValue", "pricePerAreaValue"}

\* fields in which an item differs from the well-formed item of the city
Deviations(c, item) == {f \in ItemFields : item[f] # GoodItem(c)[f]}

HtmlInputs(c) ==
    {[script |-> sc, doc |-> d, item |-> GoodItem(c)] : sc \in BOOLEAN, d \in DocValues}
        \cup {[script |-> TRUE, doc |-> "item", item |-> it] :
                 it \in {x \in Items : Cardinality(Deviations(c, x)) <= MaxDeviations}}

----------------------------------------------------------------------------
(***************************************************************************)
(* fetch_response.  A call issues a request; the upstream answers with a   *)
(* status or the request fails.  A transient status and a connection       *)
(* failure both start a nested call of fetch_response, so f_calls is the   *)
(* stack of suspended frames below the frame whose request is in flight:   *)
(* "transient" for a frame suspended at the await of the 502/503/504       *)
(* branch, "conn_error" for one suspended at the await of the except       *)
(* clause.  A body is named by the position of the response it came with;  *)
(* None is the value returned when there is no body.                       *)
(***************************************************************************)
None == 0

Urls == {"search_url", "apartment_url"}
PageParams == {0, 1, 2}     \* 0: called without a Page parameter

TransientStatuses == {502, 503, 504}
Statuses == {200, 404, 500} \cup TransientStatuses

Responses ==
    {[kind |-> "status", status |-> st, readable |-> TRUE] : st \in Statuses}
        \cup {[kind |-> "status", status |-> 200, readable |-> FALSE]}
        \cup {[kind |-> k, status |-> 0, readable |-> FALSE] : k \in {"conn_error", "timeout"}}

IsOk(r) == r.kind = "status" /\ r.status = 200 /\ r.readable
IsPayloadError(r) == r.kind = "status" /\ r.status = 200 /\ ~r.readable
IsTransient(r) == r.kind = "status" /\ r.status \in TransientStatuses
IsOtherStatus(r) == r.kind = "status" /\ r.status \notin ({200} \cup TransientStatuses)
IsConnFailure(r) == r.kind \in {"conn_error", "timeout"}

\* the request of a call: session.get(url, params=kwargs)
Request(url, page) == <<url, page>>

\* (mutant) the 502/503/504 branch drops the nested result as well
ReturnToCallerDiscard(frame, v) == None

\* what a suspended frame returns once its nested call has returned v
ReturnToCaller(frame, v) == IF frame = "transient" THEN v ELSE None

\* the value the outermost call returns when the innermost returns v
RECURSIVE Unwind(_, _)
Unwind(frames, v) ==
    IF frames = <<>> THEN v
    ELSE Unwind(SubSeq(frames, 1, Len(frames) - 1), ReturnToCaller(Last(frames), v))

RequestInFlight == ~f_done /\ Len(f_requests) = Len(f_responses) + 1

NotFetching == UNCHANGED <<siteVars, dbVars, runVars, histVars, recVars, urlVars, gatherVars, phaseVars>>

FetchCall ==
    /\ ~f_done /\ f_requests = <<>>
    /\ f_requests' = <<Request(f_url, f_page)>>
    /\ UNCHANGED <<f_url, f_page, f_calls, f_responses, f_done, f_result>>
    /\ NotFetching

FetchReturn(r, v) ==
    /\ f_responses' = Append(f_responses, r)
    /\ f_result' = Unwind(f_calls, v)
    /\ f_done' = TRUE
    /\ f_calls' = <<>>
    /\ UNCHANGED <<f_url, f_page, f_requests>>
    /\ NotFetching

FetchNested(r, frame) ==
    /\ Len(f_requests) < MaxRequests
    /\ f_responses' = Append(f_responses, r)
    /\ f_calls' = Append(f_calls, frame)
    /\ f_requests' = Append(f_requests, Request(f_url, f_page))
    /\ UNCHANGED <<f_url, f_page, f_done, f_result>>
    /\ NotFetching

\* status 200: the body is read and returned
Receive200 ==
    /\ RequestInFlight
    /\ \E r \in Responses : IsOk(r) /\ FetchReturn(r, Len(f_responses) + 1)

\* status 200 whose body cannot be read: ClientPayloadError
ReceivePayloadError ==
    /\ RequestInFlight
    /\ \E r \in Responses : IsPayloadError(r) /\ FetchReturn(r, None)

\* (mutant) a transient status is retried once, then the call gives up
ReceiveTransientBounded ==
    /\ RequestInFlight
    /\ \E r \in Responses :
          /\ IsTransient(r)
          /\ IF f_calls = <<>> THEN FetchNested(r, "transient") ELSE FetchReturn(r, None)

\* status 502, 503, 504: sleep, call fetch_response again, return its result
ReceiveTransient ==
    /\ RequestInFlight
    /\ \E r \in Responses : IsTransient(r) /\ FetchNested(r, "transient")

\* (mutant) any other status is retried like a transient one
ReceiveOtherStatusRetry ==
    /\ RequestInFlight
    /\ \E r \in Responses : IsOtherStatus(r) /\ FetchNested(r, "transient")

\* any other status
ReceiveOtherStatus ==
    /\ RequestInFlight
    /\ \E r \in Responses : IsOtherStatus(r) /\ FetchReturn(r, None)

\* ClientConnectionError or TimeoutError: sleep, call fetch_response again
ReceiveConnFailure ==
    /\ RequestInFlight
    /\ \E r \in Responses : IsConnFailure(r) /\ FetchNested(r, "conn_error")

----------------------------------------------------------------------------
\* Specifications of the parts

FetchIdle ==
    /\ f_url = "search_url" /\ f_page = 0 /\ f_calls = <<>> /\ f_requests = <<>>
    /\ f_responses = <<>> /\ f_done = FALSE /\ f_result = None

RecordIdle ==
    /\ r_city = "moscow" /\ r_html = GoodHtml("moscow")
    /\ r_applied = FALSE /\ r_result = ReturnedNone

UrlsIdle ==
    /\ u_homepage = "https://www.domofond.ru/" /\ u_pages = <<>>
    /\ u_applied = "" /\ u_result = [raised |-> "", urls |-> <<>>]

GatherIdle ==
    /\ g_tasks = <<>> /\ g_hung = {} /\ g_order = <<>>
    /\ g_state = "idle" /\ g_phase = "search" /\ g_result = <<>>
    /\ g_batch = 0 /\ g_committed = 0

PhasesIdle ==
    /\ p_pc = "closed" /\ p_pages_left = 0 /\ p_batch = 0 /\ p_commits = 0
    /\ p_in_flight = 0 /\ p_bodies = 0 /\ p_workers = 0 /\ p_items = 0
    /\ p_raised = FALSE /\ p_db_ops = 0

RunIdle ==
    /\ city = "moscow" /\ pagination = "ok" /\ site_pages = 1 /\ links = 1
    /\ defect = [page |-> 0, kind |-> "ok"]
    /\ table_exists = TRUE /\ committed = {} /\ pending = {} /\ conn_open = FALSE
    /\ pc = "idle" /\ run = 0 /\ fault = ""
    /\ last_page = 0 /\ all_search_pages = [start |-> 1, stop |-> 1]
    /\ next_pages = [start |-> 1, stop |-> 1] /\ progress = 0
    /\ all_search_pages_content = <<>> /\ all_apt_urls = <<>>
    /\ all_apt_htmls = <<>> /\ data = <<>>
    /\ page_requests = <<>> /\ detail_requests = <<>> /\ db_log = <<>>
    /\ reports = <<>> /\ run_rows = <<>>

InitFetch ==
    /\ f_url \in Urls /\ f_page \in PageParams
    /\ f_calls = <<>> /\ f_requests = <<>> /\ f_responses = <<>>
    /\ f_done = FALSE /\ f_result = None
    /\ RecordIdle /\ RunIdle /\ UrlsIdle /\ GatherIdle /\ PhasesIdle

NextFetch ==
    \/ FetchCall
    \/ Receive200
    \/ ReceivePayloadError
    \/ ReceiveTransient
    \/ ReceiveOtherStatus
    \/ ReceiveConnFailure

SpecFetch == InitFetch /\ [][NextFetch]_vars

ExtractRecord ==
    /\ ~r_applied
    /\ r_result' = get_single_apartment_data(r_city, r_html)
    /\ r_applied' = TRUE
    /\ UNCHANGED <<r_city, r_html>>
    /\ UNCHANGED <<siteVars, dbVars, runVars, histVars, fetchVars, urlVars, gatherVars, phaseVars>>

InitRecord ==
    /\ r_city \in Cities
    /\ r_html \in HtmlInputs(r_city)
    /\ r_applied = FALSE /\ r_result = ReturnedNone
    /\ FetchIdle /\ RunIdle /\ UrlsIdle /\ GatherIdle /\ PhasesIdle

NextRecord == ExtractRecord

SpecRecord == InitRecord /\ [][NextRecord]_vars

\* Search-page markup as the extraction sees it: whether the listings
\* container is there, and the anchors inside it in document order; an anchor
\* is [has_href, href]
Anchor(href) == [has_href |-> TRUE, href |-> href]
AnchorWithoutHref == [has_href |-> FALSE, href |-> ""]
Homepages == {"https://www.domofond.ru/", "https://test.example/"}
AnchorValues == {Anchor("flat-1"), Anchor("flat-2"), AnchorWithoutHref}
AnchorSeqs == UNION {[1..n -> AnchorValues] : n \in 0..MaxAnchors}
SearchPages ==
    {[container |-> TRUE, anchors |-> a] : a \in AnchorSeqs}
        \cup {[container |-> FALSE, anchors |-> <<>>]}

\* (mutant) the hrefs are returned as they stand in the page
get_apartment_urls_from_single_page_relative(homepage, search_page) ==
    IF ~search_page.container
    THEN [raised |-> "AttributeError", urls |-> <<>>]
    ELSE IF \E i \in 1..Len(search_page.anchors) : ~search_page.anchors[i].has_href
    THEN [raised |-> "TypeError", urls |-> <<>>]
    ELSE [raised |-> "",
          urls |-> [i \in 1..Len(search_page.anchors) |-> search_page.anchors[i].href]]

\* soup.find(...) is None without the container; row.get("href") is None for
\* an anchor without href, and str + None raises
get_apartment_urls_from_single_page(homepage, search_page) ==
    IF ~search_page.container
    THEN [raised |-> "AttributeError", urls |-> <<>>]
    ELSE IF \E i \in 1..Len(search_page.anchors) : ~search_page.anchors[i].has_href
    THEN [raised |-> "TypeError", urls |-> <<>>]
    ELSE [raised |-> "",
          urls |-> [i \in 1..Len(search_page.anchors) |->
                        homepage \o search_page.anchors[i].href]]

\* chain(*result): the per-page lists in page order; unpacking the map raises
\* the exception of the first page whose worker raised
RECURSIVE chain(_)
chain(results) ==
    IF results = <<>> THEN [raised |-> "", urls |-> <<>>]
    ELSE IF Head(results).raised # "" THEN [raised |-> Head(results).raised, urls |-> <<>>]
    ELSE LET rest == chain(Tail(results))
         IN  IF rest.raised # "" THEN rest
             ELSE [raised |-> "", urls |-> Head(results).urls \o rest.urls]

ExtractFromSinglePage ==
    /\ u_applied = "" /\ u_pages # <<>>
    /\ u_result' = get_apartment_urls_from_single_page(u_homepage, Head(u_pages))
    /\ u_applied' = "single"
    /\ UNCHANGED <<u_homepage, u_pages>>
    /\ UNCHANGED <<siteVars, dbVars, runVars, histVars, fetchVars, recVars, gatherVars, phaseVars>>

ExtractFromMultiplePages ==
    /\ u_applied = ""
    /\ u_result' = chain([k \in 1..Len(u_pages) |->
                            get_apartment_urls_from_single_page(u_homepage, u_pages[k])])
    /\ u_applied' = "multiple"
    /\ UNCHANGED <<u_homepage, u_pages>>
    /\ UNCHANGED <<siteVars, dbVars, runVars, histVars, fetchVars, recVars, gatherVars, phaseVars>>

InitUrls ==
    /\ u_homepage \in Homepages
    /\ u_pages \in UNION {[1..n -> SearchPages] : n \in 0..MaxPages}
    /\ u_applied = "" /\ u_result = [raised |-> "", urls |-> <<>>]
    /\ FetchIdle /\ RecordIdle /\ RunIdle /\ GatherIdle /\ PhasesIdle

NextUrls ==
    \/ ExtractFromSinglePage
    \/ ExtractFromMultiplePages

SpecUrls == InitUrls /\ [][NextUrls]_vars

\* get_multiple_pages_content inside get_all_necessary_data and the batch
\* loop.  A task resolves to "body" (a non-empty text), "empty" (the empty
\* text of a 200 response), "none", or "raise" (fetch_response raised).
NotGathering ==
    UNCHANGED <<siteVars, dbVars, runVars, histVars, fetchVars, recVars, urlVars,
                phaseVars>>

Resolutions == {"body", "empty", "none", "raise"}
Pending(i) == g_tasks[i] = "pending"
Truthy(i) == g_tasks[i] = "body"

\* lines 64-69 (and 252, 207, 209): every task of the phase is created before
\* the coroutine first yields
CreateTasks ==
    /\ \/ (g_state \in {"idle", "committed"} /\ g_batch < MaxGatherBatches
            /\ g_phase' = "search" /\ g_batch' = g_batch + 1)
       \/ (g_state = "returned" /\ g_phase = "search"
            /\ g_phase' = "detail" /\ UNCHANGED g_batch)
    /\ \E n \in 1..MaxTasks : \E hung \in SUBSET (1..n) :
          /\ g_tasks' = [i \in 1..n |-> "pending"]
          /\ g_hung' = hung
    /\ g_order' = <<>> /\ g_result' = <<>>
    /\ g_state' = "awaiting"
    /\ UNCHANGED g_committed
    /\ NotGathering

\* one fetch_response task finishes, in any order
TaskResolves ==
    /\ g_state = "awaiting"
    /\ \E i \in 1..Len(g_tasks) : \E r \in Resolutions :
          /\ Pending(i) /\ i \notin g_hung
          /\ g_tasks' = [g_tasks EXCEPT ![i] = r]
          /\ g_order' = Append(g_order, i)
    /\ UNCHANGED <<g_hung, g_state, g_phase, g_result, g_batch, g_committed>>
    /\ NotGathering

\* (mutant) the caller goes on as soon as one task is done
GatherReturnsEarly ==
    /\ g_state = "awaiting"
    /\ \E i \in 1..Len(g_tasks) : ~Pending(i)
    /\ \A i \in 1..Len(g_tasks) : g_tasks[i] # "raise"
    /\ g_result' = SelectSeq([i \in 1..Len(g_tasks) |-> i], Truthy)
    /\ g_state' = "returned"
    /\ UNCHANGED <<g_tasks, g_hung, g_order, g_phase, g_batch, g_committed>>
    /\ NotGathering

\* lines 69-71: gather is over when every task is done; the results in task
\* order, those that are falsy filtered out
GatherReturns ==
    /\ g_state = "awaiting"
    /\ \A i \in 1..Len(g_tasks) : ~Pending(i) /\ g_tasks[i] # "raise"
    /\ g_result' = SelectSeq([i \in 1..Len(g_tasks) |-> i], Truthy)
    /\ g_state' = "returned"
    /\ UNCHANGED <<g_tasks, g_hung, g_order, g_phase, g_batch, g_committed>>
    /\ NotGathering

\* line 69: gather raises the first exception of a task; asyncio.run cancels
\* the tasks that are left
GatherRaises ==
    /\ g_state = "awaiting"
    /\ \E i \in 1..Len(g_tasks) : g_tasks[i] = "raise"
    /\ g_tasks' = [i \in 1..Len(g_tasks) |->
                        IF Pending(i) THEN "cancelled" ELSE g_tasks[i]]
    /\ g_state' = "raised"
    /\ UNCHANGED <<g_hung, g_order, g_phase, g_result, g_batch, g_committed>>
    /\ NotGathering

\* lines 210 and 255-257: after the detail phase the batch is extracted,
\* inserted and committed
CommitAfterPhases ==
    /\ g_state = "returned" /\ g_phase = "detail"
    /\ g_committed' = g_committed + 1
    /\ g_state' = "committed"
    /\ UNCHANGED <<g_tasks, g_hung, g_order, g_phase, g_result, g_batch>>
    /\ NotGathering

InitGather == GatherIdle /\ FetchIdle /\ RecordIdle /\ RunIdle /\ UrlsIdle /\ PhasesIdle

NextGather ==
    \/ CreateTasks
    \/ TaskResolves
    \/ GatherReturns
    \/ GatherRaises
    \/ CommitAfterPhases

SpecGather == InitGather /\ [][NextGather]_vars

\* The batch loop of scrape_and_save with get_all_necessary_data unfolded
\* into its units of work.  Fetch tasks and extraction calls are counted,
\* not named: the order among them is the subject of SpecGather.
NotInPhases ==
    UNCHANGED <<siteVars, dbVars, runVars, histVars, fetchVars, recVars, urlVars,
                gatherVars>>

PhasePageCounts ==
    {1, n_pages_by_iteration, n_pages_by_iteration + 1, 2 * n_pages_by_iteration}

\* lines 252-253 and 207: the slice of at most 40 pages, one task per page
IssueSearchFetches ==
    /\ p_pc = "loop" /\ p_pages_left > 0
    /\ p_in_flight' = Min(n_pages_by_iteration, p_pages_left)
    /\ p_batch' = p_batch + 1
    /\ p_bodies' = 0 /\ p_items' = 0
    /\ p_pc' = "search"
    /\ UNCHANGED <<p_pages_left, p_commits, p_workers, p_raised, p_db_ops>>
    /\ NotInPhases

\* a fetch_response task is done: a body, none, or an exception
FetchResolves ==
    /\ p_pc \in {"search", "detail"} /\ p_in_flight > 0
    /\ p_in_flight' = p_in_flight - 1
    /\ \E r \in {"body", "none", "raise"} :
          /\ p_bodies' = IF r = "body" THEN p_bodies + 1 ELSE p_bodies
          /\ p_raised' = (p_raised \/ r = "raise")
    /\ UNCHANGED <<p_pc, p_pages_left, p_batch, p_commits, p_workers, p_items, p_db_ops>>
    /\ NotInPhases

\* (mutant) the fetch phase is left while tasks are still running
GatherDoneEarly ==
    /\ p_pc \in {"search", "detail"} /\ ~p_raised
    /\ p_workers' = p_bodies
    /\ p_pc' = IF p_pc = "search" THEN "urls" ELSE "records"
    /\ UNCHANGED <<p_pages_left, p_batch, p_commits, p_in_flight, p_bodies, p_items,
                   p_raised, p_db_ops>>
    /\ NotInPhases

\* gather returned (line 69); the bodies are handed to executor.map, one call
\* per body (lines 123-125, 179-182)
GatherDone ==
    /\ p_pc \in {"search", "detail"} /\ ~p_raised /\ p_in_flight = 0
    /\ p_workers' = p_bodies
    /\ p_pc' = IF p_pc = "search" THEN "urls" ELSE "records"
    /\ UNCHANGED <<p_pages_left, p_batch, p_commits, p_in_flight, p_bodies, p_items,
                   p_raised, p_db_ops>>
    /\ NotInPhases

\* gather raised: asyncio.run cancels the tasks that are left, the exception
\* leaves the with block
PhaseGatherRaises ==
    /\ p_pc \in {"search", "detail"} /\ p_raised
    /\ p_in_flight' = 0
    /\ p_pc' = "exit"
    /\ UNCHANGED <<p_pages_left, p_batch, p_commits, p_bodies, p_workers, p_items,
                   p_raised, p_db_ops>>
    /\ NotInPhases

\* one extraction call finishes; a search page gives one listing URL or none
WorkerFinishes ==
    /\ p_pc \in {"urls", "records"} /\ p_workers > 0
    /\ p_workers' = p_workers - 1
    /\ \E r \in {"value", "nothing", "raise"} :
          /\ p_items' = IF p_pc = "urls" /\ r = "value" THEN p_items + 1 ELSE p_items
          /\ p_raised' = (p_raised \/ r = "raise")
    /\ UNCHANGED <<p_pc, p_pages_left, p_batch, p_commits, p_in_flight, p_bodies, p_db_ops>>
    /\ NotInPhases

\* the executor's with block ends when every call has finished.  chain(*result)
\* raises what a URL worker raised, otherwise the detail fetches are created
\* (line 209); the results of the record workers are consumed by the insert loop
ExtractionDone ==
    /\ p_pc \in {"urls", "records"} /\ p_workers = 0
    /\ IF p_pc = "records"
       THEN p_pc' = "insert" /\ UNCHANGED <<p_in_flight, p_bodies>>
       ELSE IF p_raised
       THEN p_pc' = "exit" /\ UNCHANGED <<p_in_flight, p_bodies>>
       ELSE p_pc' = "detail" /\ p_in_flight' = p_items /\ p_bodies' = 0
    /\ UNCHANGED <<p_pages_left, p_batch, p_commits, p_workers, p_items, p_raised, p_db_ops>>
    /\ NotInPhases

\* lines 255-256: the insert loop; it raises what a record worker raised
InsertBatch ==
    /\ p_pc = "insert"
    /\ p_db_ops' = p_db_ops + 1
    /\ p_pc' = IF p_raised THEN "exit" ELSE "commit"
    /\ UNCHANGED <<p_pages_left, p_batch, p_commits, p_in_flight, p_bodies, p_workers,
                   p_items, p_raised>>
    /\ NotInPhases

\* lines 257-262
CommitPhase ==
    /\ p_pc = "commit"
    /\ p_db_ops' = p_db_ops + 1
    /\ p_commits' = p_commits + 1
    /\ p_pages_left' = p_pages_left - Min(n_pages_by_iteration, p_pages_left)
    /\ p_pc' = "loop"
    /\ UNCHANGED <<p_batch, p_in_flight, p_bodies, p_workers, p_items, p_raised>>
    /\ NotInPhases

\* line 252: the range is exhausted
LoopEnds ==
    /\ p_pc = "loop" /\ p_pages_left = 0
    /\ p_pc' = "exit"
    /\ UNCHANGED <<p_pages_left, p_batch, p_commits, p_in_flight, p_bodies, p_workers,
                   p_items, p_raised, p_db_ops>>
    /\ NotInPhases

\* DataBaseConnection.__exit__: commit and close
ExitCommits ==
    /\ p_pc = "exit"
    /\ p_db_ops' = p_db_ops + 1
    /\ p_pc' = "closed"
    /\ UNCHANGED <<p_pages_left, p_batch, p_commits, p_in_flight, p_bodies, p_workers,
                   p_items, p_raised>>
    /\ NotInPhases

InitPhases ==
    /\ p_pc = "loop" /\ p_pages_left \in PhasePageCounts
    /\ p_batch = 0 /\ p_commits = 0
    /\ p_in_flight = 0 /\ p_bodies = 0 /\ p_workers = 0 /\ p_items = 0
    /\ p_raised = FALSE /\ p_db_ops = 0
    /\ FetchIdle /\ RecordIdle /\ RunIdle /\ UrlsIdle /\ GatherIdle

NextPhases ==
    \/ IssueSearchFetches
    \/ FetchResolves
    \/ GatherDone
    \/ PhaseGatherRaises
    \/ WorkerFinishes
    \/ ExtractionDone
    \/ InsertBatch
    \/ CommitPhase
    \/ LoopEnds
    \/ ExitCommits

SpecPhases == InitPhases /\ [][NextPhases]_vars

----------------------------------------------------------------------------
\* Claims about fetch_response (checked under SpecFetch)

AllTransientBeforeLast ==
    \A i \in 1..(Len(f_responses) - 1) : IsTransient(f_responses[i])

\* C3: when the first request fails with a connection error or a timeout and
\* the retried request receives status 200, fetch_response returns the body of
\* the retried response.
C3_RetriedBodyReturned ==
    (/\ f_done
     /\ Len(f_responses) = 2
     /\ IsConnFailure(f_responses[1])
     /\ IsOk(f_responses[2]))
        => f_result = 2

\* C4: after n >= 0 transient statuses (502, 503, 504) followed by a 200,
\* fetch_response has issued exactly n+1 requests, all with the URL and the
\* query parameters of the call, and returns the body of the final response.
C4_TransientThenBody ==
    (/\ f_done
     /\ f_responses # <<>>
     /\ IsOk(Last(f_responses))
     /\ AllTransientBeforeLast)
        => /\ f_result = Len(f_responses)
           /\ Len(f_requests) = Len(f_responses)
           /\ \A i \in 1..Len(f_requests) : f_requests[i] = <<f_url, f_page>>

C4_Witness ==
    /\ f_done
    /\ Len(f_responses) = 3
    /\ IsTransient(f_responses[1]) /\ IsTransient(f_responses[2])
    /\ IsOk(f_responses[3])
    /\ f_result = 3
    /\ f_page = 2

\* C5: a response with a status other than 200, 502, 503, 504 ends the fetch
\* with none and without a further request, also after earlier transient
\* responses of the same fetch.
C5_OtherStatusNone ==
    (f_responses # <<>> /\ IsOtherStatus(Last(f_responses)))
        => /\ f_done
           /\ f_result = None
           /\ Len(f_requests) = Len(f_responses)

C5_Witness ==
    /\ f_done
    /\ Len(f_responses) = 2
    /\ IsTransient(f_responses[1])
    /\ f_responses[2].status = 404
    /\ f_result = None
    /\ Len(f_requests) = 2

----------------------------------------------------------------------------
(***************************************************************************)
(* The site as scrape_and_save sees it.  Every search page carries `links` *)
(* listing anchors; a listing URL is <<page, i>>, the i-th anchor of that  *)
(* page.  One search page, defect.page, may be irregular: its own fetch or *)
(* markup, or the detail page behind its first anchor.                     *)
(***************************************************************************)
Paginations == {"ok", "fetch_none", "no_container", "no_entries"}

PageDefectKinds ==
    {"page_fetch_none", "page_empty_body", "page_fetch_raise", "page_no_container"}
ListingDefectKinds ==
    {"listing_fetch_none", "listing_missing_key", "listing_bad_json",
     "listing_null_field"}

NoDefect == [page |-> 0, kind |-> "ok"]
DefectPages == {2, n_pages_by_iteration + 2}
Defects ==
    {NoDefect} \cup
    {[page |-> p, kind |-> k] :
        p \in DefectPages, k \in PageDefectKinds \cup ListingDefectKinds}

\* page counts around the batch boundaries
PageCounts ==
    {1, 2, 3} \cup
    {k * n_pages_by_iteration + d : k \in 1..MaxFullBatches, d \in {-1, 0, 1, 2}}

PageDefect(p) == IF defect.page = p THEN defect.kind ELSE "ok"
ListingDefect(u) ==
    IF u[1] = defect.page /\ u[2] = 1 /\ defect.kind \in ListingDefectKinds
    THEN defect.kind ELSE "ok"

\* what fetch_response returns for search page p and for listing URL u
SearchFetch(p) ==
    CASE PageDefect(p) = "page_fetch_none" -> "none"
      [] PageDefect(p) = "page_empty_body" -> "empty"
      [] PageDefect(p) = "page_fetch_raise" -> "raise"
      [] OTHER -> "body"
ListingFetch(u) == IF ListingDefect(u) = "listing_fetch_none" THEN "none" ELSE "body"

\* the markup of search page p and the detail page of listing u
HasContainer(p) == PageDefect(p) # "page_no_container"
Hrefs(p) == [i \in 1..links |-> <<p, i>>]
ListingHtml(u) ==
    CASE ListingDefect(u) = "listing_missing_key" ->
            [GoodHtml(city) EXCEPT !.item.priceValue = Absent]
      [] ListingDefect(u) = "listing_bad_json" ->
            [GoodHtml(city) EXCEPT !.doc = "undecodable"]
      [] ListingDefect(u) = "listing_null_field" ->
            [GoodHtml(city) EXCEPT !.item.location.longitude = Null]
      [] OTHER -> GoodHtml(city)

----------------------------------------------------------------------------
\* Python ranges [start, stop) and their slices

Range(a, b) == [start |-> a, stop |-> b]
RangeLen(r) == IF r.stop > r.start THEN r.stop - r.start ELSE 0
RangeSeq(r) == [i \in 1..RangeLen(r) |-> r.start + i - 1]

\* r[:n]
RangeTake(r, n) == Range(r.start, Min(r.start + n, r.stop))

\* (mutant) the slice for the rest of the range starts one page early
RangeDropOverlap(r, n) == Range(Min(r.start + n - 1, r.stop), r.stop)

\* r[n:]
RangeDrop(r, n) == Range(Min(r.start + n, r.stop), r.stop)

RECURSIVE Flatten(_)
Flatten(ss) == IF ss = <<>> THEN <<>> ELSE Head(ss) \o Flatten(Tail(ss))

----------------------------------------------------------------------------
\* The pieces of scrape_and_save

\* (mutant) a missing pagination control counts as a single page
get_number_of_last_page_default ==
    [raised |-> FALSE, value |-> IF pagination = "ok" THEN site_pages ELSE 1]

\* get_number_of_last_page: the page count, or a fault raised while parsing
get_number_of_last_page ==
    [raised |-> pagination # "ok",
     value |-> IF pagination = "ok" THEN site_pages ELSE 0]

\* get_multiple_pages_content: the fetches issued and what it returns
\* (the results that are truthy), or the fault one of the fetches raised
SearchPagesContent(pages) == SelectSeq(pages, LAMBDA p : SearchFetch(p) = "body")
SearchFetchRaises(pages) == \E i \in 1..Len(pages) : SearchFetch(pages[i]) = "raise"
DetailPagesContent(urls) == SelectSeq(urls, LAMBDA u : ListingFetch(u) = "body")

\* get_apartment_urls_from_multiple_pages: chain(*result) raises when a page
\* has no listings container
UrlExtractionRaises(contents) == \E i \in 1..Len(contents) : ~HasContainer(contents[i])
get_apartment_urls_from_multiple_pages(contents) ==
    Flatten([i \in 1..Len(contents) |-> Hrefs(contents[i])])

\* get_multiple_apartment_data: executor.map keeps one result per detail page,
\* a value or the exception of its worker; the filter runs when it is consumed
get_multiple_apartment_data(htmls) ==
    [i \in 1..Len(htmls) |->
        [url |-> htmls[i], res |-> get_single_apartment_data(city, ListingHtml(htmls[i]))]]

\* insert_rows formats the tuple with Python's repr: a None in it is not SQL
insert_rows_fails(rec) == \E k \in 1..Len(rec) : rec[k].t = "null"

\* the first entry of data at which the insert loop faults, 0 if none
ItemFaults(item) ==
    \/ item.res.exc # ""
    \/ (~item.res.none /\ insert_rows_fails(item.res.rec))
FirstFault(d) ==
    IF \E j \in 1..Len(d) : ItemFaults(d[j])
    THEN CHOOSE j \in 1..Len(d) :
            ItemFaults(d[j]) /\ \A k \in 1..(j - 1) : ~ItemFaults(d[k])
    ELSE 0

\* the rows whose INSERT was executed among the first n entries of data
RowOf(u) == <<run, u[1], u[2]>>
InsertedRows(d, n) ==
    {RowOf(d[j].url) : j \in {k \in 1..n : ~d[k].res.none /\ d[k].res.exc = ""}}

Log(op, n) == [op |-> op, n |-> n]

\* a line printed by the run, with the number it shows
Report(msg, value) == [msg |-> msg, value |-> value]

\* round(pages / total * 100, 2), in hundredths of a percent
RoundedPercent(pages, total) == (2 * pages * 10000 + total) \div (2 * total)

NotRunning == UNCHANGED <<siteVars, fetchVars, recVars, urlVars, gatherVars, phaseVars>>

\* lines 238-243: discovery, the page range, the progress step
StartRun ==
    /\ pc \in {"idle", "done", "aborted"}
    /\ run < MaxRuns
    /\ run' = run + 1
    /\ page_requests' = <<>> /\ detail_requests' = <<>> /\ db_log' = <<>>
    /\ all_search_pages_content' = <<>> /\ all_apt_urls' = <<>>
    /\ all_apt_htmls' = <<>> /\ data' = <<>>
    /\ progress' = 0
    /\ IF get_number_of_last_page.raised
       THEN /\ pc' = "aborted"
            /\ fault' = "discovery"
            /\ reports' = <<>>
            /\ run_rows' = Append(run_rows, committed)
            /\ UNCHANGED <<last_page, all_search_pages, next_pages>>
       ELSE /\ pc' = "drop"
            /\ fault' = ""
            /\ last_page' = get_number_of_last_page.value
            /\ all_search_pages' = Range(1, get_number_of_last_page.value + 1)
            /\ next_pages' = Range(1, 1)
            /\ reports' = <<Report("pages_found", get_number_of_last_page.value)>>
            /\ UNCHANGED run_rows
    /\ UNCHANGED dbVars
    /\ NotRunning

\* (mutant) the table is emptied only when it is missing: no DROP TABLE
DropTableSkipped ==
    /\ pc = "drop"
    /\ conn_open' = TRUE
    /\ db_log' = db_log \o <<Log("open", 0), Log("commit", 0)>>
    /\ pc' = "create"
    /\ UNCHANGED <<table_exists, committed, fault>>
    /\ UNCHANGED <<pending, run, last_page, all_search_pages, next_pages, progress,
                   all_search_pages_content, all_apt_urls, all_apt_htmls, data,
                   page_requests, detail_requests, reports, run_rows>>
    /\ NotRunning

\* (mutant) DROP TABLE IF EXISTS: a missing table is not a fault
DropTableIfExists ==
    /\ pc = "drop"
    /\ conn_open' = TRUE
    /\ table_exists' = FALSE
    /\ committed' = {}
    /\ db_log' = db_log \o <<Log("open", 0), Log("drop", 0), Log("commit", 0)>>
    /\ pc' = "create"
    /\ UNCHANGED fault
    /\ UNCHANGED <<pending, run, last_page, all_search_pages, next_pages, progress,
                   all_search_pages_content, all_apt_urls, all_apt_htmls, data,
                   page_requests, detail_requests, reports, run_rows>>
    /\ NotRunning

\* lines 245-249: open the connection, DROP TABLE, commit
DropTable ==
    /\ pc = "drop"
    /\ conn_open' = TRUE
    /\ IF table_exists
       THEN /\ table_exists' = FALSE
            /\ committed' = {}
            /\ db_log' = db_log \o <<Log("open", 0), Log("drop", 0), Log("commit", 0)>>
            /\ pc' = "create"
            /\ UNCHANGED fault
       ELSE /\ db_log' = db_log \o <<Log("open", 0)>>
            /\ pc' = "raising"
            /\ fault' = "drop"
            /\ UNCHANGED <<table_exists, committed>>
    /\ UNCHANGED <<pending, run, last_page, all_search_pages, next_pages, progress,
                   all_search_pages_content, all_apt_urls, all_apt_htmls, data,
                   page_requests, detail_requests, reports, run_rows>>
    /\ NotRunning

\* line 250: CREATE TABLE IF NOT EXISTS
CreateTable ==
    /\ pc = "create"
    /\ table_exists' = TRUE
    /\ db_log' = Append(db_log, Log("create", 0))
    /\ pc' = "loop"
    /\ UNCHANGED <<committed, pending, conn_open, run, fault, last_page,
                   all_search_pages, next_pages, progress,
                   all_search_pages_content, all_apt_urls, all_apt_htmls, data,
                   page_requests, detail_requests, reports, run_rows>>
    /\ NotRunning

\* lines 252-253 and 207: the next slice, its search pages fetched together
FetchSearchPages ==
    /\ pc = "loop"
    /\ RangeLen(all_search_pages) > 0
    /\ LET pages == RangeSeq(RangeTake(all_search_pages, n_pages_by_iteration))
       IN  /\ next_pages' = RangeTake(all_search_pages, n_pages_by_iteration)
           /\ page_requests' = Append(page_requests, pages)
           /\ IF SearchFetchRaises(pages)
              THEN /\ pc' = "raising"
                   /\ fault' = "fetch"
                   /\ UNCHANGED all_search_pages_content
              ELSE /\ pc' = "extract_urls"
                   /\ all_search_pages_content' = SearchPagesContent(pages)
                   /\ UNCHANGED fault
    /\ UNCHANGED <<dbVars, run, last_page, all_search_pages, progress,
                   all_apt_urls, all_apt_htmls, data,
                   detail_requests, db_log, reports, run_rows>>
    /\ NotRunning

\* line 208: listing URLs of every search page that was returned
ExtractUrls ==
    /\ pc = "extract_urls"
    /\ all_search_pages_content' = <<>>
    /\ IF UrlExtractionRaises(all_search_pages_content)
       THEN /\ pc' = "raising"
            /\ fault' = "urls"
            /\ UNCHANGED all_apt_urls
       ELSE /\ pc' = "fetch_details"
            /\ all_apt_urls' = get_apartment_urls_from_multiple_pages(all_search_pages_content)
            /\ UNCHANGED fault
    /\ UNCHANGED <<dbVars, run, last_page, all_search_pages, next_pages, progress,
                   all_apt_htmls, data, histVars>>
    /\ NotRunning

\* line 209: the detail pages fetched together
FetchDetails ==
    /\ pc = "fetch_details"
    /\ detail_requests' = Append(detail_requests, all_apt_urls)
    /\ all_apt_htmls' = DetailPagesContent(all_apt_urls)
    /\ all_apt_urls' = <<>>
    /\ pc' = "extract_records"
    /\ UNCHANGED <<dbVars, run, fault, last_page, all_search_pages, next_pages,
                   progress, all_search_pages_content, data,
                   page_requests, db_log, reports, run_rows>>
    /\ NotRunning

\* (mutant) the results are collected in a list: a worker's exception
\* surfaces when the extraction phase ends
ExtractRecordsEager ==
    /\ pc = "extract_records"
    /\ all_apt_htmls' = <<>>
    /\ LET d == get_multiple_apartment_data(all_apt_htmls)
       IN  IF \E j \in 1..Len(d) : d[j].res.exc # ""
           THEN pc' = "raising" /\ fault' = "record" /\ data' = <<>>
           ELSE pc' = "insert" /\ UNCHANGED fault /\ data' = d
    /\ UNCHANGED <<dbVars, run, last_page, all_search_pages, next_pages,
                   progress, all_search_pages_content, all_apt_urls, histVars>>
    /\ NotRunning

\* line 210: the workers run to completion, their results wait to be consumed
ExtractRecords ==
    /\ pc = "extract_records"
    /\ data' = get_multiple_apartment_data(all_apt_htmls)
    /\ all_apt_htmls' = <<>>
    /\ pc' = "insert"
    /\ UNCHANGED <<dbVars, run, fault, last_page, all_search_pages, next_pages,
                   progress, all_search_pages_content, all_apt_urls, histVars>>
    /\ NotRunning

\* lines 255-256: the insert loop, up to its end or to the first fault
InsertRows ==
    /\ pc = "insert"
    /\ LET j == FirstFault(data)
           n == IF j = 0 THEN Len(data) ELSE j - 1
           rows == InsertedRows(data, n)
       IN  /\ pending' = pending \cup rows
           /\ db_log' = Append(db_log, Log("insert", Cardinality(rows)))
           /\ IF j = 0
              THEN pc' = "commit" /\ UNCHANGED fault
              ELSE /\ pc' = "raising"
                   /\ fault' = IF data[j].res.exc # "" THEN "record" ELSE "insert"
    /\ data' = <<>>
    /\ UNCHANGED <<table_exists, committed, conn_open, run, last_page,
                   all_search_pages, next_pages, progress,
                   all_search_pages_content, all_apt_urls, all_apt_htmls,
                   page_requests, detail_requests, reports, run_rows>>
    /\ NotRunning

\* (mutant) the batch loop without its conn.commit()
CommitBatchForgotten ==
    /\ pc = "commit"
    /\ progress' = progress + n_pages_by_iteration
    /\ reports' = Append(reports,
            Report("progress", RoundedPercent(progress + n_pages_by_iteration, last_page)))
    /\ all_search_pages' = RangeDrop(all_search_pages, n_pages_by_iteration)
    /\ pc' = "loop"
    /\ UNCHANGED <<dbVars, db_log>>
    /\ UNCHANGED <<run, fault, last_page, next_pages,
                   all_search_pages_content, all_apt_urls, all_apt_htmls, data,
                   page_requests, detail_requests, run_rows>>
    /\ NotRunning

\* lines 257-262: commit, progress, the rest of the page range
CommitBatch ==
    /\ pc = "commit"
    /\ committed' = committed \cup pending
    /\ pending' = {}
    /\ db_log' = Append(db_log, Log("commit", 0))
    /\ progress' = progress + n_pages_by_iteration
    /\ reports' = Append(reports,
            Report("progress", RoundedPercent(progress + n_pages_by_iteration, last_page)))
    /\ all_search_pages' = RangeDrop(all_search_pages, n_pages_by_iteration)
    /\ pc' = "loop"
    /\ UNCHANGED <<table_exists, conn_open, run, fault, last_page, next_pages,
                   all_search_pages_content, all_apt_urls, all_apt_htmls, data,
                   page_requests, detail_requests, run_rows>>
    /\ NotRunning

\* (mutant) the loop ends without the completion message
CompleteUnreported ==
    /\ pc = "loop"
    /\ RangeLen(all_search_pages) = 0
    /\ pc' = "completed"
    /\ UNCHANGED <<dbVars, run, fault, last_page, all_search_pages, next_pages,
                   progress, all_search_pages_content, all_apt_urls, all_apt_htmls,
                   data, page_requests, detail_requests, db_log, run_rows, reports>>
    /\ NotRunning

\* lines 252 and 263: the page range is exhausted
Complete ==
    /\ pc = "loop"
    /\ RangeLen(all_search_pages) = 0
    /\ reports' = Append(reports, Report("completed", 0))
    /\ pc' = "completed"
    /\ UNCHANGED <<dbVars, run, fault, last_page, all_search_pages, next_pages,
                   progress, all_search_pages_content, all_apt_urls, all_apt_htmls,
                   data, page_requests, detail_requests, db_log, run_rows>>
    /\ NotRunning

\* (mutant) a context manager that rolls back when the block raised
DataBaseConnection_exit_rollback ==
    /\ pc \in {"completed", "raising"}
    /\ committed' = IF pc = "completed" THEN committed \cup pending ELSE committed
    /\ pending' = {}
    /\ conn_open' = FALSE
    /\ db_log' = db_log \o <<Log(IF pc = "completed" THEN "commit" ELSE "rollback", 0),
                              Log("close", 0)>>
    /\ pc' = IF pc = "completed" THEN "done" ELSE "aborted"
    /\ run_rows' = Append(run_rows, committed')
    /\ UNCHANGED <<table_exists, run, fault, last_page, all_search_pages,
                   next_pages, progress, all_search_pages_content, all_apt_urls,
                   all_apt_htmls, data, page_requests, detail_requests, reports>>
    /\ NotRunning

\* DataBaseConnection.__exit__, at the end of the with block or on a fault
DataBaseConnection_exit ==
    /\ pc \in {"completed", "raising"}
    /\ committed' = committed \cup pending
    /\ pending' = {}
    /\ conn_open' = FALSE
    /\ db_log' = db_log \o <<Log("commit", 0), Log("close", 0)>>
    /\ pc' = IF pc = "completed" THEN "done" ELSE "aborted"
    /\ run_rows' = Append(run_rows, committed \cup pending)
    /\ UNCHANGED <<table_exists, run, fault, last_page, all_search_pages,
                   next_pages, progress, all_search_pages_content, all_apt_urls,
                   all_apt_htmls, data, page_requests, detail_requests, reports>>
    /\ NotRunning

\* a row left by an earlier run of the program
OldRows == {<<0, 1, 1>>}

Init ==
    /\ city \in Cities
    /\ pagination \in Paginations
    /\ site_pages \in PageCounts
    /\ links \in 1..MaxLinks
    /\ defect \in {d \in Defects : d.page <= site_pages}
    /\ table_exists \in BOOLEAN
    /\ committed = IF table_exists THEN OldRows ELSE {}
    /\ pending = {} /\ conn_open = FALSE
    /\ pc = "idle" /\ run = 0 /\ fault = ""
    /\ last_page = 0 /\ all_search_pages = Range(1, 1)
    /\ next_pages = Range(1, 1) /\ progress = 0
    /\ all_search_pages_content = <<>> /\ all_apt_urls = <<>>
    /\ all_apt_htmls = <<>> /\ data = <<>>
    /\ page_requests = <<>> /\ detail_requests = <<>> /\ db_log = <<>>
    /\ reports = <<>> /\ run_rows = <<>>
    /\ FetchIdle /\ RecordIdle /\ UrlsIdle /\ GatherIdle /\ PhasesIdle

Next ==
    \/ StartRun
    \/ DropTable
    \/ CreateTable
    \/ FetchSearchPages
    \/ ExtractUrls
    \/ FetchDetails
    \/ ExtractRecords
    \/ InsertRows
    \/ CommitBatch
    \/ Complete
    \/ DataBaseConnection_exit

Spec == Init /\ [][Next]_vars

\* scrape_and_save is one sequential coroutine: a step that can be taken is
\* taken.  The city only selects the district key (SpecRecord), so one city
\* stands for all in the runs checked for progress.
InitLive == Init /\ city = "moscow"
SpecLive == InitLive /\ [][Next]_vars /\ WF_vars(Next)

----------------------------------------------------------------------------
\* Claims about scrape_and_save (checked under Spec)

RequestedPages == Flatten(page_requests)

\* the table has been dropped and recreated in the current run
Recreated ==
    \/ pc \in {"loop", "extract_urls", "fetch_details", "extract_records",
               "insert", "commit", "completed", "done"}
    \/ (pc \in {"raising", "aborted"} /\ fault \in {"fetch", "urls", "record", "insert"})

\* C1: the batches partition 1..last_page: the Page parameters requested over
\* a run are 1, 2, 3, ... in this order, each once and none beyond last_page,
\* every batch holds between 1 and 40 of them, and a run that reaches its end
\* has requested all of 1..last_page.
C1_BatchesPartitionPages ==
    (run >= 1 /\ pagination = "ok") =>
        /\ \A b \in 1..Len(page_requests) :
              Len(page_requests[b]) >= 1 /\ Len(page_requests[b]) <= 40
        /\ \A i \in 1..Len(RequestedPages) : RequestedPages[i] = i
        /\ Len(RequestedPages) <= last_page
        /\ (pc \in {"completed", "done"} => Len(RequestedPages) = last_page)

C1_Witness ==
    /\ pc = "done"
    /\ last_page = 2 * n_pages_by_iteration + 1
    /\ Len(page_requests) = 3
    /\ Len(page_requests[1]) = 40 /\ Len(page_requests[2]) = 40
    /\ page_requests[3] = <<81>>

\* rows that the pages before page p contribute when nothing goes wrong there
RegularRowsBefore(p) ==
    {<<run, q, i>> : q \in {x \in 1..(p - 1) : x # defect.page}, i \in 1..links}

\* C2: after a fault that aborts the run during batch k, once the table has
\* been recreated, the table holds the rows of batches 1..k-1 and no row of
\* batch k.
C2_AbortedBatchNotPersisted ==
    (pc = "aborted" /\ fault \in {"fetch", "urls", "record", "insert"}) =>
        /\ \A row \in committed : row[1] = run /\ row[2] < next_pages.start
        /\ RegularRowsBefore(next_pages.start) \subseteq committed

\* the storage operations of a run of b batches without a fault
RECURSIVE BatchOps(_)
BatchOps(b) == IF b = 0 THEN <<>> ELSE <<"insert", "commit">> \o BatchOps(b - 1)
LogOps == [i \in 1..Len(db_log) |-> db_log[i].op]

\* C6: in a run where the table exists, every fetch returns a body and every
\* listing page is well-formed, the committed rows are one per listing link of
\* every search page, and every batch's inserts are followed by exactly one
\* commit before the next batch starts.
C6_AllLinksCommittedOncePerBatch ==
    (run >= 1 /\ pagination = "ok" /\ defect = NoDefect) =>
        /\ (pc = "done" =>
              /\ committed = {<<run, p, i>> : p \in 1..last_page, i \in 1..links}
              /\ Cardinality(committed) = last_page * links
              /\ LogOps = <<"open", "drop", "commit", "create">>
                            \o BatchOps(Len(page_requests)) \o <<"commit", "close">>)
        /\ (pc \in {"loop", "extract_urls", "fetch_details", "extract_records"} =>
              /\ pending = {}
              /\ LogOps = <<"open", "drop", "commit", "create">>
                            \o BatchOps(Len(page_requests)
                                        - (IF pc = "loop" THEN 0 ELSE 1)))

C6_Witness ==
    /\ pc = "done" /\ run = 1
    /\ defect = NoDefect
    /\ last_page = 3 /\ links = 2
    /\ Cardinality(committed) = 6
    /\ Len(page_requests) = 1

\* C7: once a run has dropped and recreated the table, no row of an earlier
\* run is in it, and a second run that completes leaves as many rows as the
\* run before it, all of them its own.
C7_RerunReplacesRows ==
    /\ (Recreated \/ pc = "create") =>
          \A row \in committed \cup pending : row[1] = run
    /\ (pc = "done" /\ run >= 2) =>
          /\ Cardinality(committed) = Cardinality(run_rows[run - 1])
          /\ committed = {<<run, row[2], row[3]>> : row \in run_rows[run - 1]}

C7_Witness ==
    /\ pc = "done" /\ run = 2
    /\ last_page = 3 /\ links = 2 /\ defect = NoDefect
    /\ Cardinality(committed) = 6
    /\ Cardinality(run_rows[1]) = 6

\* the per-item failures C9 names
PerItemFailureKinds ==
    {"ok", "page_fetch_none", "listing_fetch_none", "page_no_container",
     "listing_missing_key", "listing_bad_json"}

\* C9: with pagination found and the table present, per-item failures (a
\* fetch returning none, a search page without the listings container, a
\* listing page with a missing field or malformed JSON) never abort the run.
C9_PerItemFailuresAbsorbed ==
    (pc \in {"raising", "aborted"} /\ defect.kind \in PerItemFailureKinds)
        => fault \in {"discovery", "drop"}

\* C10: when pagination discovery fails, starting a run aborts it with a
\* fault, and that step leaves the table and its rows as they were, opens no
\* connection, executes no storage operation and requests no page.
C10_DiscoveryFailureTouchesNothing ==
    [][(pc \in {"idle", "done", "aborted"} /\ pagination # "ok") =>
          /\ pc' = "aborted" /\ fault' = "discovery"
          /\ UNCHANGED <<table_exists, committed, pending, conn_open>>
          /\ db_log' = <<>>
          /\ page_requests' = <<>> /\ detail_requests' = <<>>]_vars

C10_Witness ==
    /\ run = 1 /\ pc = "aborted" /\ fault = "discovery"
    /\ pagination = "no_entries"
    /\ table_exists /\ committed = OldRows
    /\ db_log = <<>> /\ page_requests = <<>>

----------------------------------------------------------------------------
\* Claims about get_single_apartment_data (checked under SpecRecord)

WellTyped(rec) ==
    /\ Len(rec) = 6
    /\ rec[1].t = "str" /\ rec[1].s # <<>>
    /\ \A k \in 2..6 : rec[k].t = "num"

\* C8: get_single_apartment_data never raises, and what it returns is none or
\* a record whose six fields are all present and well-typed.
C8_NoneOrCompleteRecord ==
    r_applied =>
        /\ r_result.exc = ""
        /\ (r_result.none \/ WellTyped(r_result.rec))

----------------------------------------------------------------------------
\* Progress reporting (checked under Spec)

ProgressReports == SelectSeq(reports, LAMBDA r : r.msg = "progress")

RECURSIVE PagesUpTo(_)
PagesUpTo(k) == IF k = 0 THEN 0 ELSE Len(page_requests[k]) + PagesUpTo(k - 1)

\* C11: the progress reported after batch k is the sum over batches 1..k of
\* (pages of the batch / last_page) * 100, so 100 % after the only batch of a
\* 3-page run.
C11_ProgressIsShareOfPages ==
    \A k \in 1..Len(ProgressReports) :
        ProgressReports[k].value = RoundedPercent(PagesUpTo(k), last_page)

----------------------------------------------------------------------------
\* The six required fields (checked under SpecRecord)

PayloadPresent == r_html.script /\ r_html.doc = "item"

\* the district object under the key of r_city, and under the other key
OwnDistrict ==
    IF r_city = "ekaterinburg" THEN r_html.item.district ELSE r_html.item.adminDistrict
OtherDistrict ==
    IF r_city = "ekaterinburg" THEN r_html.item.adminDistrict ELSE r_html.item.district

DistrictGood(d) == d.t = "obj" /\ d.name.t = "str" /\ d.name.s # <<>>
DistrictLacking(d) == d.t = "absent" \/ (d.t = "obj" /\ d.name.t = "absent")
CoordinateGood(loc, v) == loc.t = "obj" /\ v.t = "num"
CoordinateLacking(loc, v) == loc.t = "absent" \/ (loc.t = "obj" /\ v.t = "absent")

\* per required field: present and well-typed, and missing
FieldsGood ==
    LET it == r_html.item
    IN  << DistrictGood(OwnDistrict),
           CoordinateGood(it.location, it.location.longitude),
           CoordinateGood(it.location, it.location.latitude),
           it.floorAreaCalculated.t = "num",
           it.priceValue.t = "num",
           it.pricePerAreaValue.t = "num" >>
FieldsLacking ==
    LET it == r_html.item
    IN  << DistrictLacking(OwnDistrict),
           CoordinateLacking(it.location, it.location.longitude),
           CoordinateLacking(it.location, it.location.latitude),
           it.floorAreaCalculated.t = "absent",
           it.priceValue.t = "absent",
           it.pricePerAreaValue.t = "absent" >>

\* C12: a payload that lacks one (or more) of the six required fields, the
\* others being well-typed, yields none; a complete, well-typed payload yields
\* the record of the first token of the district label and the five payload
\* values.
C12_MissingFieldNoneCompleteRecord ==
    (r_applied /\ PayloadPresent) =>
        /\ ((\A k \in 1..6 : FieldsGood[k] \/ FieldsLacking[k])
            /\ (\E k \in 1..6 : FieldsLacking[k]))
              => r_result = [exc |-> "", none |-> TRUE, rec |-> <<>>]
        /\ (\A k \in 1..6 : FieldsGood[k])
              => /\ r_result.exc = "" /\ ~r_result.none
                 /\ r_result.rec =
                      << [t |-> "str", n |-> 0, s |-> <<OwnDistrict.name.s[1]>>],
                         r_html.item.location.longitude,
                         r_html.item.location.latitude,
                         r_html.item.floorAreaCalculated,
                         r_html.item.priceValue,
                         r_html.item.pricePerAreaValue >>

C12_Witness ==
    /\ r_applied /\ PayloadPresent
    /\ \A k \in 1..6 : FieldsGood[k]
    /\ OwnDistrict.name.s = <<"Kirovsky", "rayon">>
    /\ r_result.rec[1].s = <<"Kirovsky">>
    /\ r_result.rec[5] = [t |-> "num", n |-> 3000, s |-> <<>>]

\* C20: the district is read under "district" for the slug "ekaterinburg" and
\* under "adminDistrict" for every other slug, whatever the other key holds: a
\* payload with the district only under the other key yields none.
C20_DistrictKeyByCity ==
    (/\ r_applied /\ PayloadPresent
     /\ \A k \in 2..6 : FieldsGood[k])
        => /\ OwnDistrict.t = "absent"
                => r_result = [exc |-> "", none |-> TRUE, rec |-> <<>>]
           /\ DistrictGood(OwnDistrict)
                => /\ ~r_result.none /\ r_result.exc = ""
                   /\ r_result.rec[1].s = <<OwnDistrict.name.s[1]>>

C20_Witness ==
    /\ r_applied /\ PayloadPresent
    /\ r_city = "saint_petersburg"
    /\ \A k \in 2..6 : FieldsGood[k]
    /\ r_html.item.adminDistrict.t = "absent"
    /\ DistrictGood(r_html.item.district)
    /\ r_result.none

----------------------------------------------------------------------------
\* Retries of fetch_response (checked under SpecFetch)

AllConnFailures == \A i \in 1..Len(f_responses) : IsConnFailure(f_responses[i])
AllTransient == \A i \in 1..Len(f_responses) : IsTransient(f_responses[i])

C17_TransientRetriedWithoutBound ==
    (f_requests # <<>> /\ AllTransient) =>
        /\ ~f_done
        /\ Len(f_requests) = Len(f_responses) + 1
        /\ Len(f_calls) = Len(f_responses)
        /\ Last(f_requests) = <<f_url, f_page>>

C17_Witness ==
    /\ Len(f_responses) = 3 /\ AllTransient
    /\ Len(f_requests) = 4
    /\ ~f_done

----------------------------------------------------------------------------
\* A missing table, and completion (checked under Spec and SpecLive)

\* C19: when the table does not exist at the drop step the run faults there,
\* and in a run that faulted at the drop step the table is not created, no
\* batch search page is fetched and no row is inserted.
C19_MissingTableAbortsAtDrop ==
    /\ [][(pc = "drop" /\ ~table_exists) =>
            (pc' = "raising" /\ fault' = "drop" /\ ~table_exists')]_vars
    /\ [](fault = "drop" =>
            /\ pc \in {"raising", "aborted"}
            /\ ~table_exists
            /\ committed = {} /\ pending = {}
            /\ page_requests = <<>> /\ detail_requests = <<>>
            /\ \A i \in 1..Len(LogOps) : LogOps[i] \notin {"drop", "create", "insert"})

C19_Witness ==
    /\ pc = "aborted" /\ fault = "drop"
    /\ ~table_exists
    /\ LogOps = <<"open", "commit", "close">>

NumberOfBatches == (last_page + n_pages_by_iteration - 1) \div n_pages_by_iteration

CompletedExactly ==
    /\ pc = "done"
    /\ Len(page_requests) = NumberOfBatches
    /\ Len(ProgressReports) = NumberOfBatches
    /\ Len(SelectSeq(reports, LAMBDA r : r.msg = "completed")) = 1
    /\ Last(reports).msg = "completed"
    /\ LogOps = <<"open", "drop", "commit", "create">>
                    \o BatchOps(NumberOfBatches) \o <<"commit", "close">>

\* C18: a run that found last_page >= 1 and whose table exists eventually
\* either faults or is done, having fetched ceil(last_page / 40) batches,
\* reported progress once per batch and completion once, after the last
\* batch's commit.
C18_FaultlessRunCompletes ==
    (pc = "drop" /\ table_exists /\ last_page >= 1) ~> (fault # "" \/ CompletedExactly)

C18_Witness ==
    /\ CompletedExactly
    /\ NumberOfBatches = 3
    /\ last_page = 2 * n_pages_by_iteration + 1

----------------------------------------------------------------------------
\* Listing URLs (checked under SpecUrls)

WellFormedPage(pg) ==
    pg.container /\ \A i \in 1..Len(pg.anchors) : pg.anchors[i].has_href

\* the anchors of the pages before page k
RECURSIVE AnchorsBefore(_)
AnchorsBefore(k) == IF k <= 1 THEN 0 ELSE Len(u_pages[k - 1].anchors) + AnchorsBefore(k - 1)

\* C13: for a page whose container holds N anchors the single-page function
\* returns N URLs, the i-th being homepage + href of the i-th anchor; over the
\* pages of a batch the result is these lists one after the other, nothing
\* dropped and nothing added.
C13_UrlsAreHomepagePlusHref ==
    /\ (u_applied = "single" /\ WellFormedPage(Head(u_pages))) =>
          /\ u_result.raised = ""
          /\ Len(u_result.urls) = Len(Head(u_pages).anchors)
          /\ \A i \in 1..Len(Head(u_pages).anchors) :
                u_result.urls[i] = u_homepage \o Head(u_pages).anchors[i].href
    /\ (u_applied = "multiple" /\ \A k \in 1..Len(u_pages) : WellFormedPage(u_pages[k])) =>
          /\ u_result.raised = ""
          /\ Len(u_result.urls) = AnchorsBefore(Len(u_pages) + 1)
          /\ \A k \in 1..Len(u_pages) : \A i \in 1..Len(u_pages[k].anchors) :
                u_result.urls[AnchorsBefore(k) + i] = u_homepage \o u_pages[k].anchors[i].href

C13_Witness ==
    /\ u_applied = "multiple"
    /\ Len(u_pages) = 2
    /\ u_homepage = "https://www.domofond.ru/"
    /\ u_result = [raised |-> "",
                   urls |-> <<"https://www.domofond.ru/flat-2",
                              "https://www.domofond.ru/flat-1",
                              "https://www.domofond.ru/flat-1">>]

----------------------------------------------------------------------------
\* A fetch phase (checked under SpecGather)

TaskIds == [i \in 1..Len(g_tasks) |-> i]
NotNone(i) == g_tasks[i] \in {"body", "empty"}
PhaseOver == g_state \in {"returned", "committed"}

\* a phase returns only when every task has resolved, whatever the order; a
\* phase with a fetch that never resolves does not complete, its batch is
\* not committed and no later batch starts
WaitsForEveryTask ==
    /\ PhaseOver =>
          /\ \A i \in 1..Len(g_tasks) : g_tasks[i] \in {"body", "empty", "none"}
          /\ Len(g_order) = Len(g_tasks)
          /\ {g_order[k] : k \in 1..Len(g_order)} = 1..Len(g_tasks)
    /\ g_hung # {} =>
          /\ ~PhaseOver
          /\ g_committed = g_batch - 1

\* C16 as stated: the result is exactly the bodies of the fetches that did
\* not resolve to none.
C16_ResultIsEveryBodyNotNone ==
    /\ WaitsForEveryTask
    /\ PhaseOver => g_result = SelectSeq(TaskIds, NotNone)

\* C16, amended: the result is exactly the non-empty bodies, in task order;
\* a fetch that resolved to none or to an empty body contributes nothing.
C16_ResultIsEveryNonEmptyBody ==
    /\ WaitsForEveryTask
    /\ PhaseOver => g_result = SelectSeq(TaskIds, LAMBDA i : g_tasks[i] = "body")
    /\ PhaseOver => \A i \in 1..Len(g_tasks) :
          g_tasks[i] \in {"none", "empty"} => \A k \in 1..Len(g_result) : g_result[k] # i

C16_Witness ==
    /\ g_state = "returned"
    /\ g_tasks = <<"body", "none", "body">>
    /\ g_order = <<3, 2, 1>>
    /\ g_result = <<1, 3>>

----------------------------------------------------------------------------
\* Order of the phases (checked under SpecPhases)

PhaseOrder ==
    {<<"loop", "search">>, <<"search", "urls">>, <<"urls", "detail">>,
     <<"detail", "records">>, <<"records", "insert">>, <<"insert", "commit">>,
     <<"commit", "loop">>}
Quiet == p_in_flight = 0 /\ p_workers = 0

\* C15: within a batch the phases follow one another in the order search
\* fetches, URL extraction, detail fetches, record extraction, insert and
\* commit, each entered only when no unit of the previous one is unfinished;
\* units of batch k+1 exist only after batch k was committed; no statement or
\* commit runs on the connection while a fetch is in flight or a worker is
\* running; at most 40 search-page fetches are in flight.
C15_PhasesAndBatchesSequential ==
    /\ [][p_pc' # p_pc =>
            \/ (<<p_pc, p_pc'>> \in PhaseOrder /\ Quiet)
            \/ p_pc' = "exit"
            \/ (p_pc = "exit" /\ p_pc' = "closed")]_vars
    /\ [][p_db_ops' # p_db_ops => (Quiet /\ p_in_flight' = 0 /\ p_workers' = 0)]_vars
    /\ [](~Quiet => p_commits = p_batch - 1)
    /\ [](p_pc \in {"insert", "commit", "exit", "closed"} => Quiet)
    /\ [](p_pc = "search" => p_in_flight <= n_pages_by_iteration)

C15_Witness ==
    /\ p_pc = "search"
    /\ p_batch = 2 /\ p_commits = 1
    /\ p_in_flight = n_pages_by_iteration
    /\ p_db_ops = 2

----------------------------------------------------------------------------
\* The storage connection and lazy extraction (checked under Spec)

EndsWithCommitClose ==
    /\ Len(LogOps) >= 2
    /\ LogOps[Len(LogOps) - 1] = "commit" /\ Last(LogOps) = "close"

\* C21: every exit from the with block, normal or by an exception, commits
\* what is pending and then closes; nothing is ever rolled back, so the rows
\* inserted before a fault are durable.
C21_ExitAlwaysCommitsThenCloses ==
    /\ [][(conn_open /\ pc \in {"completed", "raising"}) =>
            /\ committed' = committed \cup pending
            /\ pending' = {}
            /\ ~conn_open'
            /\ db_log' = db_log \o <<Log("commit", 0), Log("close", 0)>>]_vars
    /\ [][(conn_open /\ ~conn_open') => pc \in {"completed", "raising"}]_vars
    /\ [][pending \subseteq (pending' \cup committed')]_vars
    /\ []((pc \in {"done", "aborted"} /\ run >= 1 /\ fault # "discovery") =>
            /\ ~conn_open /\ pending = {}
            /\ EndsWithCommitClose
            /\ \A i \in 1..Len(LogOps) : LogOps[i] # "rollback")

C21_Witness ==
    /\ pc = "aborted" /\ fault \in {"record", "insert"}
    /\ ~conn_open /\ pending = {}
    /\ EndsWithCommitClose
    /\ \E row \in committed : row[1] = run /\ row[2] >= next_pages.start


\* the position in data of the first listing whose extraction raised, when no
\* insert before it failed
RaisedAt(j) ==
    /\ j \in 1..Len(data)
    /\ data[j].res.exc # ""
    /\ \A k \in 1..(j - 1) :
          data[k].res.exc = "" /\ (data[k].res.none \/ ~insert_rows_fails(data[k].res.rec))
SurvivingBefore(j) == {RowOf(data[k].url) : k \in {i \in 1..(j - 1) : ~data[i].res.none}}

\* C22: a fault of record extraction surfaces in the insert loop, at the
\* listing it belongs to, after the inserts of the earlier surviving records
\* of the batch; a fault of URL extraction surfaces before any detail page of
\* the batch is fetched.
C22_RecordFaultsLazyUrlFaultsEager ==
    /\ [][fault' = "record" /\ fault # "record" =>
            /\ pc = "insert" /\ pc' = "raising"
            /\ \E j \in 1..Len(data) :
                  /\ RaisedAt(j)
                  /\ pending' = pending \cup SurvivingBefore(j)
                  /\ db_log' = Append(db_log, Log("insert", Cardinality(SurvivingBefore(j))))]_vars
    /\ [][(pc = "extract_records" /\ pc' # pc) => (pc' = "insert" /\ fault' = fault)]_vars
    /\ [][fault' = "urls" /\ fault # "urls" =>
            /\ pc = "extract_urls" /\ pc' = "raising"
            /\ UNCHANGED <<detail_requests, pending, db_log>>]_vars
    /\ [](fault = "urls" => Len(detail_requests) = Len(page_requests) - 1)
    /\ [](fault = "record" => Len(detail_requests) = Len(page_requests))

C22_Witness ==
    /\ pc = "raising" /\ fault = "record"
    /\ defect.page = n_pages_by_iteration + 2
    /\ {row \in pending : row[2] = n_pages_by_iteration + 1} # {}
    /\ \A row \in pending : row[2] < defect.page
    /\ Last(LogOps) = "insert"

====
